---- MODULE Spec2Model ----
(***************************************************************************)
(* zcalc: the stackup and net-list loaders (src/src/zcalc/stackup.py and   *)
(* src/src/zcalc/nets.py).  Every call is modelled as one atomic step that *)
(* maps its argument to an outcome: a returned value or a raised exception *)
(* with its message, plus whatever it printed.                             *)
(***************************************************************************)
EXTENDS Integers, Sequences, FiniteSets, TLC

VARIABLES fs, input, call, result, stdout

vars == <<fs, input, call, result, stdout>>

(***************************************************************************)
(* Bounds of the model.                                                    *)
(***************************************************************************)
MaxLayers == 2
MaxMaterials == 2
MaxNets == 2

(***************************************************************************)
(* Python / YAML values.  A scalar is a record [tag, n, s]; a dict keeps   *)
(* its insertion order in `keys` and its items in `at`; a list keeps its   *)
(* elements in `xs`.                                                       *)
(***************************************************************************)
NoneV == [tag |-> "none", n |-> 0, s |-> ""]
IntV(n) == [tag |-> "int", n |-> n, s |-> ""]
FloatV(n) == [tag |-> "float", n |-> n, s |-> ""]
StrV(s) == [tag |-> "str", n |-> 0, s |-> s]
DictV(keys, at) == [tag |-> "dict", keys |-> keys, at |-> at]
ListV(xs) == [tag |-> "list", xs |-> xs]
EmptyDict == DictV(<<>>, [k \in {} |-> NoneV])

Range(seq) == {seq[i] : i \in 1..Len(seq)}

IsNone(v) == v.tag = "none"
IsMapping(v) == v.tag = "dict"
IsList(v) == v.tag = "list"

\* `k in d` for a dict d and a string key k.
HasKey(d, k) == k \in DOMAIN d.at
\* d.get(k, default)
Get(d, k, default) == IF HasKey(d, k) THEN d.at[k] ELSE default
\* d[k] = v, keeping insertion order
DictSet(d, k, v) ==
    DictV(IF HasKey(d, k) THEN d.keys ELSE Append(d.keys, k),
          [x \in (DOMAIN d.at) \cup {k} |-> IF x = k THEN v ELSE d.at[x]])
\* `v in d` for an arbitrary scalar v: only a string can equal a string key.
Contains(d, v) == v.tag = "str" /\ HasKey(d, v.s)

\* str(v), as one piece of message text
Format(v) ==
    CASE v.tag = "str" -> v.s
      [] v.tag = "int" -> ToString(v.n)
      [] v.tag = "float" -> ToString(v.n) \o ".0"
      [] OTHER -> "None"
\* repr(v)
Repr(v) == IF v.tag = "str" THEN "'" \o v.s \o "'" ELSE Format(v)

(***************************************************************************)
(* Outcomes of a call.                                                     *)
(***************************************************************************)
NoResult == [kind |-> "none", exc |-> "", msg |-> <<>>, value |-> NoneV]
Return(v) == [kind |-> "return", exc |-> "", msg |-> <<>>, value |-> v]
Raise(e, m) == [kind |-> "raise", exc |-> e, msg |-> m, value |-> NoneV]
Returned(r) == r.kind = "return"
Raised(r, e) == r.kind = "raise" /\ r.exc = e

\* str(e) of an exception outcome: the pieces of its message, in order.
\* An f-string places the pieces of the inner message inside its own text.
\* The pieces keep the source's wording, less its backquotes and newlines.
Wrap(prefix, r) == <<prefix>> \o r.msg

(***************************************************************************)
(* pydantic field validation (lax mode).                                   *)
(***************************************************************************)
\* The strings float() accepts, among those the model uses.
NumericLiterals == {"4", "35"}
ParseNumber(s) == IF s = "4" THEN 4 ELSE 35

\* float: an int or a numeric string is coerced, anything else is refused.
FloatOk(v) ==
    \/ v.tag \in {"int", "float"}
    \/ v.tag = "str" /\ v.s \in NumericLiterals
ToFloat(v) == IF v.tag = "str" THEN FloatV(ParseNumber(v.s)) ELSE FloatV(v.n)
\* Optional[float] = None
OptFloatOk(v) == IsNone(v) \/ FloatOk(v)
ToOptFloat(v) == IF IsNone(v) THEN NoneV ELSE ToFloat(v)
\* str: only a string is accepted.
StrOk(v) == v.tag = "str"

\* The text of a ValidationError: one piece per failing field, in field order.
FieldError(ok, loc, what) == IF ok THEN <<>> ELSE <<loc \o ": " \o what>>

(***************************************************************************)
(* class LayerType(str, Enum)                                              *)
(***************************************************************************)
LayerType == {"copper", "dielectric"}
\* LayerType(v) succeeds exactly on the two member values.
IsLayerType(v) == v.tag = "str" /\ v.s \in LayerType

(***************************************************************************)
(* class Material(BaseModel)                                               *)
(***************************************************************************)
MaterialKinds == {"dielectric", "copper"}
KindUnchecked(v) == TRUE
KindOk(v) == v.tag = "str" /\ v.s \in MaterialKinds

MaterialErrors(name, kind, er, conductivity) ==
    FieldError(KindOk(kind), "kind", "Input should be 'dielectric' or 'copper'")
    \o FieldError(OptFloatOk(er), "er", "Input should be a valid number")
    \o FieldError(OptFloatOk(conductivity), "conductivity",
                  "Input should be a valid number")

MaterialWithoutEr(name, kind, er, conductivity) ==
    [name |-> name, kind |-> kind.s, er |-> NoneV,
     conductivity |-> ToOptFloat(conductivity)]
Material(name, kind, er, conductivity) ==
    [name |-> name, kind |-> kind.s, er |-> ToOptFloat(er),
     conductivity |-> ToOptFloat(conductivity)]

(***************************************************************************)
(* class StackLayer(BaseModel)                                             *)
(***************************************************************************)
StackLayerErrors(name, thickness_um, material_name) ==
    FieldError(StrOk(name), "name", "Input should be a valid string")
    \o FieldError(FloatOk(thickness_um), "thickness_um",
                  "Input should be a valid number")
    \o FieldError(StrOk(material_name), "material_name",
                  "Input should be a valid string")

StackLayer(name, type, index, thickness_um, material_name) ==
    [name |-> name.s, type |-> type, index |-> index,
     thickness_um |-> ToFloat(thickness_um), material_name |-> material_name.s]

(***************************************************************************)
(* parse_materials(materials_data)                                         *)
(***************************************************************************)
RECURSIVE ParseMaterialsLoop(_, _, _)
ParseMaterialsLoop(materials_data, i, materials) ==
    IF i > Len(materials_data.keys) THEN Return(materials)
    ELSE
      LET name == materials_data.keys[i]
          md == materials_data.at[name]
      IN  IF ~IsMapping(md) \/ IsNone(md)
          THEN Raise("InvalidMaterials",
                     <<"Material '", name, "' must be a mapping">>)
          ELSE IF ~HasKey(md, "kind")
          THEN Raise("InvalidMaterials",
                     <<"Material '", name,
                       "' is missing required field: 'kind'.">>)
          ELSE
            LET kind == md.at["kind"]
                er == Get(md, "er", NoneV)
                conductivity == Get(md, "conductivity", NoneV)
                errs == MaterialErrors(name, kind, er, conductivity)
            IN  IF errs # <<>>
                THEN Raise("InvalidMaterials",
                           <<"Material '", name, "' validation error: '">>
                           \o errs \o <<"'">>)
                ELSE ParseMaterialsLoop(materials_data, i + 1,
                       DictSet(materials, name,
                               Material(name, kind, er, conductivity)))

parse_materials(materials_data) ==
    IF ~IsMapping(materials_data)
    THEN Raise("InvalidMaterials",
               <<"materials must be a mapping (dict) in YAML.">>)
    ELSE ParseMaterialsLoop(materials_data, 1, EmptyDict)

(***************************************************************************)
(* parse_layers(layers_data, materials)                                    *)
(***************************************************************************)
LayerAt(idx) == "Layer at index '" \o ToString(idx) \o "'"

\* enumerate(layers_data): the idx that goes with the i-th entry (from 1).
LayerIndex1(i) == i
LayerIndex(i) == i - 1

\* The presence checks, in the order the code makes them: the first
\* required field ld lacks, or "" when it has them all.
MissingFieldTypeFirst(ld) ==
    IF ~HasKey(ld, "type") THEN "type"
    ELSE IF ~HasKey(ld, "name") THEN "name"
    ELSE IF ~HasKey(ld, "material") THEN "material"
    ELSE IF ~HasKey(ld, "thickness_um") THEN "thickness_um"
    ELSE ""
MissingField(ld) ==
    IF ~HasKey(ld, "name") THEN "name"
    ELSE IF ~HasKey(ld, "type") THEN "type"
    ELSE IF ~HasKey(ld, "material") THEN "material"
    ELSE IF ~HasKey(ld, "thickness_um") THEN "thickness_um"
    ELSE ""

\* materials is not None and mat_name not in materials
UnknownMaterialIfTruthy(materials, mat_name) ==
    /\ ~IsNone(materials)
    /\ materials.keys # <<>>
    /\ ~Contains(materials, mat_name)
UnknownMaterial(materials, mat_name) ==
    ~IsNone(materials) /\ ~Contains(materials, mat_name)

RECURSIVE ParseLayersLoop(_, _, _, _)
ParseLayersLoop(layers_data, materials, i, layers) ==
    IF i > Len(layers_data.xs) THEN Return(ListV(layers))
    ELSE
      LET idx == LayerIndex(i)
          ld == layers_data.xs[i]
      IN  IF ~IsMapping(ld) \/ IsNone(ld)
          THEN Raise("InvalidLayers", <<LayerAt(idx), " must be a mapping">>)
          ELSE IF MissingField(ld) # ""
          THEN Raise("InvalidLayers",
                     <<LayerAt(idx), " is missing required field: '",
                       MissingField(ld), "'.">>)
          ELSE IF ~IsLayerType(ld.at["type"])
          THEN Raise("InvalidLayers",
                     <<LayerAt(idx), " has unknown layer type, ",
                       Repr(ld.at["type"]), " is not a valid LayerType">>)
          ELSE
            LET layer_type == ld.at["type"].s
                mat_name == ld.at["material"]
            IN  IF UnknownMaterial(materials, mat_name)
                THEN Raise("InvalidLayers",
                           <<LayerAt(idx), " is has unknown materials '",
                             Format(mat_name), "'">>)
                ELSE
                  LET errs == StackLayerErrors(ld.at["name"],
                                ld.at["thickness_um"], mat_name)
                  IN  IF errs # <<>>
                      THEN Raise("InvalidLayers",
                                 <<LayerAt(idx), " validation error: '">>
                                 \o errs \o <<"'">>)
                      ELSE ParseLayersLoop(layers_data, materials, i + 1,
                             Append(layers,
                               StackLayer(ld.at["name"], layer_type, idx,
                                          ld.at["thickness_um"], mat_name)))

parse_layers(layers_data, materials) ==
    IF ~IsList(layers_data)
    THEN Raise("InvalidLayers",
               <<"layers must be a mapping (dict) in YAML.">>)
    ELSE ParseLayersLoop(layers_data, materials, 1, <<>>)

(***************************************************************************)
(* Files.  `files` maps the paths that exist to their content; the content *)
(* is either text yaml.safe_load refuses, or the value it loads (None for  *)
(* an empty document).                                                     *)
(***************************************************************************)
Malformed == [wellformed |-> FALSE, data |-> NoneV]
Document(v) == [wellformed |-> TRUE, data |-> v]

\* type(v).__name__
TypeName(v) ==
    CASE v.tag = "none" -> "NoneType"
      [] v.tag = "dict" -> "dict"
      [] v.tag = "list" -> "list"
      [] v.tag = "float" -> "float"
      [] v.tag = "int" -> "int"
      [] OTHER -> "str"

\* What a call hands back: its outcome and the lines it printed.
Outcome(r, printed) == [r |-> r, printed |-> printed]

(***************************************************************************)
(* load_stackup(path)                                                      *)
(***************************************************************************)
StackupErrorBare(inner) ==
    Raise("InvalidStackup", <<"Error in Stackup Definition">>)
StackupError(inner) ==
    Raise("InvalidStackup", Wrap("Error in Stackup Definition: ", inner))

load_stackup(files, path) ==
    IF path \notin DOMAIN files
    THEN \* open() fails; no except clause names FileNotFoundError
         Outcome(Raise("FileNotFoundError",
                       <<"[Errno 2] No such file or directory: '", path, "'">>),
                 <<>>)
    ELSE IF ~files[path].wellformed
    THEN \* yaml.YAMLError is caught and printed; the function then ends
         Outcome(Return(NoneV), <<"Invalid Stackup YAML:">>)
    ELSE
      LET yaml_data == files[path].data
      IN  IF ~IsMapping(yaml_data)
          THEN Outcome(Raise("AttributeError",
                             <<"'", TypeName(yaml_data),
                               "' object has no attribute 'get'">>),
                       <<>>)
          ELSE
            LET materials ==
                  parse_materials(Get(yaml_data, "materials", EmptyDict))
            IN  IF Raised(materials, "InvalidMaterials")
                THEN Outcome(StackupError(materials), <<>>)
                ELSE
                  LET layers ==
                        parse_layers(Get(yaml_data, "layers", EmptyDict),
                                     materials.value)
                  IN  IF Raised(layers, "InvalidLayers")
                      THEN Outcome(StackupError(layers), <<>>)
                      ELSE \* the parsed sections are dropped: no return
                           \* statement follows the try block
                           Outcome(Return(NoneV), <<>>)

(***************************************************************************)
(* class Geometry(str, Enum), class NetType(str, Enum), class NetSpec      *)
(***************************************************************************)
Geometry == {"auto", "microstrip", "stripline", "cpw_ground"}
NetType == {"power", "signal", "diff_signal", "rf"}
IsGeometry(v) == v.tag = "str" /\ v.s \in Geometry
IsNetType(v) == v.tag = "str" /\ v.s \in NetType

OptionalFloats ==
    <<"z0_target_ohm", "zdiff_target_ohm", "i_dc_a", "temp_rise_c",
      "length_mm", "voltage_v", "min_width_mm", "preferred_clearance_mm">>
OptionalStrs == <<"ref_plane_above", "ref_plane_below">>
OptStrOk(v) == IsNone(v) \/ StrOk(v)

RECURSIVE Concat(_)
\* The pieces of several field errors, one after the other.
Concat(seqs) == IF seqs = <<>> THEN <<>> ELSE Head(seqs) \o Concat(Tail(seqs))

\* args: the keyword arguments of NetSpec(...), by field name.
NetSpecErrors(args) ==
    FieldError(StrOk(args["name"]), "name", "Input should be a valid string")
    \o FieldError(StrOk(args["layer"]), "layer", "Input should be a valid string")
    \o FieldError(IsNetType(args["role"]), "role",
                  "Input should be 'power', 'signal', 'diff_signal' or 'rf'")
    \o Concat([i \in 1..Len(OptionalFloats) |->
                  FieldError(OptFloatOk(args[OptionalFloats[i]]),
                             OptionalFloats[i],
                             "Input should be a valid number")])
    \o Concat([i \in 1..Len(OptionalStrs) |->
                  FieldError(OptStrOk(args[OptionalStrs[i]]),
                             OptionalStrs[i],
                             "Input should be a valid string")])
    \o FieldError(StrOk(args["notes"]), "notes", "Input should be a valid string")

NetSpec(args) ==
    [f \in DOMAIN args |->
        IF f \in Range(OptionalFloats) THEN ToOptFloat(args[f]) ELSE args[f]]

\* The keyword arguments load_nets builds from the entry nd.
NetSpecArgs(nd, net_name, geom) ==
    [f \in {"name", "layer", "role", "geometry", "notes"}
           \cup Range(OptionalFloats) \cup Range(OptionalStrs) |->
        CASE f = "name" -> net_name
          [] f = "layer" -> nd.at["layer"]
          [] f = "role" -> nd.at["role"]
          [] f = "geometry" -> geom
          [] f = "notes" -> Get(nd, "notes", StrV(""))
          [] OTHER -> Get(nd, f, NoneV)]

(***************************************************************************)
(* load_nets(path)                                                         *)
(***************************************************************************)
\* `for nd in nets_data`: the items the loop visits, when nets_data is
\* iterable (a dict yields its keys).  The documents tried never hold a
\* string here, whose iteration would yield its characters.
IsIterable(v) == v.tag \in {"list", "dict"}
Items(v) ==
    IF v.tag = "list" THEN v.xs
    ELSE [i \in 1..Len(v.keys) |-> StrV(v.keys[i])]

\* nd.get("geometry", "auto")
GeomStrMicrostrip(nd) == Get(nd, "geometry", StrV("microstrip"))
GeomStr(nd) == Get(nd, "geometry", StrV("auto"))

RECURSIVE LoadNetsLoop(_, _, _)
LoadNetsLoop(items, i, nets) ==
    IF i > Len(items) THEN Return(ListV(nets))
    ELSE
      LET nd == items[i]
      IN  IF ~IsMapping(nd)
          THEN \* nd["name"] on a value that is no mapping
               Raise("TypeError",
                     <<"'", TypeName(nd), "' object is not subscriptable">>)
          ELSE IF ~HasKey(nd, "name") THEN Raise("KeyError", <<"'name'">>)
          ELSE
            LET net_name == nd.at["name"]
                geom_str == GeomStr(nd)
            IN  IF ~IsGeometry(geom_str)
                THEN Raise("ValueError",
                           <<Repr(geom_str), " is not a valid Geometry">>)
                ELSE IF ~HasKey(nd, "layer") THEN Raise("KeyError", <<"'layer'">>)
                ELSE IF ~HasKey(nd, "role") THEN Raise("KeyError", <<"'role'">>)
                ELSE
                  LET args == NetSpecArgs(nd, net_name, geom_str)
                      errs == NetSpecErrors(args)
                  IN  IF errs # <<>>
                      THEN Raise("InvalidNetList",
                                 <<"Netlist validation error for net '",
                                   Format(net_name), "': '">> \o errs \o <<"'">>)
                      ELSE LoadNetsLoop(items, i + 1,
                                        Append(nets, NetSpec(args)))

load_nets(files, path) ==
    IF path \notin DOMAIN files
    THEN Outcome(Raise("InvalidNetList",
                       <<"Net List definition ", path, ", not found">>),
                 <<>>)
    ELSE IF ~files[path].wellformed
    THEN \* yaml.YAMLError is caught and printed; the empty list is returned
         Outcome(Return(ListV(<<>>)), <<"Invalid Stackup YAML:">>)
    ELSE
      LET yaml_data == files[path].data
      IN  IF IsNone(yaml_data)
          THEN Outcome(Raise("InvalidNetList",
                             <<"Malformed Net List Defintion ", path>>),
                       <<>>)
          ELSE IF ~IsMapping(yaml_data)
          THEN Outcome(Raise("AttributeError",
                             <<"'", TypeName(yaml_data),
                               "' object has no attribute 'get'">>),
                       <<>>)
          ELSE
            LET nets_data == Get(yaml_data, "nets", ListV(<<>>))
            IN  IF ~IsIterable(nets_data)
                THEN Outcome(Raise("TypeError",
                                   <<"'", TypeName(nets_data),
                                     "' object is not iterable">>),
                             <<>>)
                ELSE Outcome(LoadNetsLoop(Items(nets_data), 1, <<>>), <<>>)

(***************************************************************************)
(* The arguments the calls are tried on.  A field of an entry is either    *)
(* left out (Absent) or given one of a few values, valid and invalid.      *)
(***************************************************************************)
Absent == [tag |-> "absent", n |-> 0, s |-> ""]

\* The dict with the fields of `order` that `opt` supplies, in that order.
FieldDict(order, opt) ==
    LET present == SelectSeq(order, LAMBDA k : opt[k] # Absent)
    IN  DictV(present, [k \in Range(present) |-> opt[k]])

\* dict(items): the dict with the <<key, value>> pairs of `items`, in order.
DictOf(items) ==
    DictV([i \in 1..Len(items) |-> items[i][1]],
          [k \in {items[i][1] : i \in 1..Len(items)} |->
              items[CHOOSE i \in 1..Len(items) : items[i][1] = k][2]])

\* Sequences of at most n pairs <<key, value>> with distinct keys.
ItemSeqs(K, V, n) ==
    {it \in UNION {[1..m -> K \X V] : m \in 0..n} :
        \A i, j \in 1..Len(it) : i # j => it[i][1] # it[j][1]}

MaterialNames == {"CU", "FR4", "PP"}
KindInputs == {Absent, StrV("copper"), StrV("dielectric"), IntV(123)}
\* <<er, conductivity>> as an entry gives them: each left out, given as a
\* number or a numeric string, given as null, or given as text.
NumberInputs ==
    {<<Absent, Absent>>, <<IntV(4), Absent>>, <<Absent, StrV("35")>>,
     <<IntV(4), StrV("35")>>, <<NoneV, Absent>>, <<StrV("foo"), Absent>>}

MaterialEntries ==
    {NoneV} \cup
    {FieldDict(<<"kind", "er", "conductivity">>,
               [kind |-> k, er |-> ec[1], conductivity |-> ec[2]]) :
        k \in KindInputs, ec \in NumberInputs}

MaterialsInputs ==
    {NoneV, ListV(<<>>)} \cup
    {DictOf(it) : it \in ItemSeqs(MaterialNames, MaterialEntries, MaxMaterials)}

NameInputs == {Absent, StrV("L1")}
TypeInputs == {Absent, StrV("copper"), StrV("foo")}
MaterialInputs == {Absent, StrV("CU"), StrV("foo")}
ThicknessInputs == {Absent, IntV(35), StrV("foo")}

LayerEntries ==
    {NoneV} \cup
    {FieldDict(<<"name", "type", "material", "thickness_um">>,
               [name |-> n, type |-> t, material |-> m, thickness_um |-> th]) :
        n \in NameInputs, t \in TypeInputs, m \in MaterialInputs,
        th \in ThicknessInputs}

LayersInputs ==
    {NoneV, EmptyDict} \cup
    {ListV(xs) : xs \in UNION {[1..m -> LayerEntries] : m \in 0..MaxLayers}}

\* The materials argument of parse_layers: None, or a parsed mapping.
CopperOnly ==
    DictOf(<<<<"CU", FieldDict(<<"kind">>, [kind |-> StrV("copper")])>>>>)
MaterialsArgs ==
    {NoneV, parse_materials(EmptyDict).value, parse_materials(CopperOnly).value}

NoInput == [materials_data |-> NoneV, layers_data |-> NoneV, materials |-> NoneV]
NoCall == [op |-> "none", path |-> ""]
NoFiles == [p \in {} |-> NoneV]

(***************************************************************************)
(* Calls of parse_materials alone.                                         *)
(***************************************************************************)
InitMaterials ==
    /\ fs = NoFiles
    /\ input \in {[NoInput EXCEPT !.materials_data = m] : m \in MaterialsInputs}
    /\ call = NoCall
    /\ result = NoResult
    /\ stdout = <<>>

ParseMaterials ==
    /\ call.op = "none"
    /\ call' = [op |-> "parse_materials", path |-> ""]
    /\ result' = parse_materials(input.materials_data)
    /\ UNCHANGED <<fs, input, stdout>>

NextMaterials == ParseMaterials

SpecMaterials == InitMaterials /\ [][NextMaterials]_vars

(***************************************************************************)
(* Calls of parse_layers alone.                                            *)
(***************************************************************************)
InitLayers ==
    /\ fs = NoFiles
    /\ input \in {[NoInput EXCEPT !.layers_data = l, !.materials = m] :
                     l \in LayersInputs, m \in MaterialsArgs}
    /\ call = NoCall
    /\ result = NoResult
    /\ stdout = <<>>

ParseLayers ==
    /\ call.op = "none"
    /\ call' = [op |-> "parse_layers", path |-> ""]
    /\ result' = parse_layers(input.layers_data, input.materials)
    /\ UNCHANGED <<fs, input, stdout>>

NextLayers == ParseLayers

SpecLayers == InitLayers /\ [][NextLayers]_vars

(***************************************************************************)
(* Calls of the two loaders on a path.  One file, board.yaml, may exist;   *)
(* it holds text that is no YAML, an empty document, a scalar, a stackup   *)
(* document or a net-list document.                                        *)
(***************************************************************************)
Paths == {"board.yaml", "nofile.yaml"}

Layer(n, t, m, th) ==
    FieldDict(<<"name", "type", "material", "thickness_um">>,
              [name |-> n, type |-> t, material |-> m, thickness_um |-> th])

DocMaterialNames == {"CU", "FR4"}
DocMaterialEntries ==
    {NoneV,
     FieldDict(<<"kind">>, [kind |-> StrV("copper")]),
     FieldDict(<<"kind", "er">>, [kind |-> StrV("dielectric"), er |-> IntV(4)]),
     FieldDict(<<"er">>, [er |-> IntV(4)]),
     FieldDict(<<"kind">>, [kind |-> IntV(123)])}
DocMaterials ==
    {Absent, NoneV} \cup
    {DictOf(it) :
        it \in ItemSeqs(DocMaterialNames, DocMaterialEntries, MaxMaterials)}

DocLayerEntries ==
    {NoneV,
     Layer(StrV("L1"), StrV("copper"), StrV("CU"), IntV(35)),
     Layer(StrV("L2"), StrV("dielectric"), StrV("FR4"), IntV(35)),
     Layer(Absent, StrV("copper"), StrV("CU"), IntV(35)),
     Layer(StrV("L1"), StrV("copper"), StrV("CU"), StrV("foo")),
     Layer(StrV("L2"), StrV("foo"), StrV("CU"), IntV(35))}
DocLayers ==
    {Absent, EmptyDict} \cup
    {ListV(xs) : xs \in UNION {[1..m -> DocLayerEntries] : m \in 0..MaxLayers}}

StackupDocs ==
    {FieldDict(<<"materials", "layers">>, [materials |-> m, layers |-> l]) :
        m \in DocMaterials, l \in DocLayers}

NetEntries ==
    {NoneV} \cup
    {FieldDict(<<"name", "layer", "role", "geometry", "z0_target_ohm">>,
               [name |-> n, layer |-> l, role |-> r, geometry |-> g,
                z0_target_ohm |-> z]) :
        n \in {Absent, StrV("VCC")}, l \in {Absent, StrV("L1")},
        r \in {Absent, StrV("power"), StrV("foo")},
        g \in {Absent, StrV("microstrip"), StrV("foo")},
        z \in {Absent, IntV(50)}}
DocNets ==
    {Absent, NoneV} \cup
    {ListV(xs) : xs \in UNION {[1..m -> NetEntries] : m \in 0..MaxNets}}

NetsDocs == {FieldDict(<<"nets">>, [nets |-> n]) : n \in DocNets}

FileContents ==
    {Malformed, Document(NoneV), Document(StrV("text"))}
    \cup {Document(d) : d \in StackupDocs \cup NetsDocs}

Init ==
    /\ fs \in {NoFiles} \cup {[p \in {"board.yaml"} |-> c] : c \in FileContents}
    /\ input = NoInput
    /\ call = NoCall
    /\ result = NoResult
    /\ stdout = <<>>

LoadStackup ==
    /\ call.op = "none"
    /\ \E path \in Paths :
         LET o == load_stackup(fs, path)
         IN  /\ call' = [op |-> "load_stackup", path |-> path]
             /\ result' = o.r
             /\ stdout' = stdout \o o.printed
    /\ UNCHANGED <<fs, input>>

LoadNets ==
    /\ call.op = "none"
    /\ \E path \in Paths :
         LET o == load_nets(fs, path)
         IN  /\ call' = [op |-> "load_nets", path |-> path]
             /\ result' = o.r
             /\ stdout' = stdout \o o.printed
    /\ UNCHANGED <<fs, input>>

Next == LoadStackup \/ LoadNets

Spec == Init /\ [][Next]_vars

(***************************************************************************)
(* What the specification calls a valid entry, stated on the input alone.  *)
(***************************************************************************)
Called(op) == call.op = op

\* A layer entry with every required field, a known type, a string name and
\* material, and a numeric thickness.
LayerShapeValid(ld) ==
    /\ IsMapping(ld)
    /\ {"name", "type", "material", "thickness_um"} \subseteq DOMAIN ld.at
    /\ ld.at["type"] \in {StrV(t) : t \in LayerType}
    /\ ld.at["name"].tag = "str"
    /\ ld.at["material"].tag = "str"
    /\ \/ ld.at["thickness_um"].tag \in {"int", "float"}
       \/ ld.at["thickness_um"] \in {StrV(l) : l \in NumericLiterals}

\* ... whose material, when a mapping is supplied, is one of its keys.
MaterialResolves(ld, materials) ==
    IsNone(materials) \/ ld.at["material"].s \in Range(materials.keys)

LayerValid(ld, materials) ==
    LayerShapeValid(ld) /\ MaterialResolves(ld, materials)

AllLayersValid ==
    /\ IsList(input.layers_data)
    /\ \A i \in 1..Len(input.layers_data.xs) :
          LayerValid(input.layers_data.xs[i], input.materials)

\* C1: parse_layers on entries that all pass validation returns as many
\* layers as entries, in input order, the i-th (from 0) with index = i,
\* whatever its other fields are; the empty input returns the empty list.
C1_IndexIsPosition ==
    (Called("parse_layers") /\ AllLayersValid) =>
        /\ Returned(result)
        /\ IsList(result.value)
        /\ Len(result.value.xs) = Len(input.layers_data.xs)
        /\ \A i \in 1..Len(result.value.xs) :
              /\ result.value.xs[i].index = i - 1
              /\ result.value.xs[i].name = input.layers_data.xs[i].at["name"].s
              /\ result.value.xs[i].material_name =
                    input.layers_data.xs[i].at["material"].s

C1_Witness ==
    /\ Called("parse_layers")
    /\ AllLayersValid
    /\ Len(input.layers_data.xs) = MaxLayers
    /\ ~IsNone(input.materials)
    /\ Returned(result)
    /\ result.value.xs[MaxLayers].index = MaxLayers - 1

(***************************************************************************)
(* The violations of an entry, in the order the specification lists them.  *)
(***************************************************************************)
ViolationOrder ==
    <<"not a mapping", "missing name", "missing type", "missing material",
      "missing thickness_um", "unknown type", "unknown material",
      "non-numeric thickness">>

HasViolation(ld, materials, v) ==
    CASE v = "not a mapping" -> ~IsMapping(ld)
      [] v = "missing name" -> IsMapping(ld) /\ "name" \notin DOMAIN ld.at
      [] v = "missing type" -> IsMapping(ld) /\ "type" \notin DOMAIN ld.at
      [] v = "missing material" ->
            IsMapping(ld) /\ "material" \notin DOMAIN ld.at
      [] v = "missing thickness_um" ->
            IsMapping(ld) /\ "thickness_um" \notin DOMAIN ld.at
      [] v = "unknown type" ->
            /\ IsMapping(ld) /\ "type" \in DOMAIN ld.at
            /\ ld.at["type"] \notin {StrV(t) : t \in LayerType}
      [] v = "unknown material" ->
            /\ IsMapping(ld) /\ "material" \in DOMAIN ld.at
            /\ ~IsNone(materials)
            /\ ld.at["material"].s \notin Range(materials.keys)
      [] OTHER ->
            /\ IsMapping(ld) /\ "thickness_um" \in DOMAIN ld.at
            /\ ld.at["thickness_um"].tag \notin {"int", "float"}
            /\ ld.at["thickness_um"] \notin {StrV(l) : l \in NumericLiterals}

Violations(ld, materials) ==
    {k \in 1..Len(ViolationOrder) : HasViolation(ld, materials, ViolationOrder[k])}

Min(S) == CHOOSE x \in S : \A y \in S : x <= y

FirstViolation(ld, materials) == ViolationOrder[Min(Violations(ld, materials))]

\* The violation an InvalidLayers message reports, read off its text.
Reported(msg) ==
    CASE msg[2] = " must be a mapping" -> "not a mapping"
      [] msg[2] = " is missing required field: '" -> "missing " \o msg[3]
      [] msg[2] = " has unknown layer type, " -> "unknown type"
      [] msg[2] = " is has unknown materials '" -> "unknown material"
      [] msg[2] = " validation error: '" /\
         msg[3] = "thickness_um: Input should be a valid number" ->
            "non-numeric thickness"
      [] OTHER -> "other"

BadPositions ==
    {i \in 1..Len(input.layers_data.xs) :
        Violations(input.layers_data.xs[i], input.materials) # {}}

\* C2: parse_layers fails with InvalidLayers at the first entry that has a
\* violation, cites that position (from 0), returns no list, and reports
\* that entry's violation that comes first in the order: not a mapping,
\* missing name, type, material, thickness, unknown type, unknown material,
\* non-numeric thickness.
C2_FirstViolationInOrder ==
    (Called("parse_layers") /\ IsList(input.layers_data)
        /\ BadPositions # {}) =>
        LET first == Min(BadPositions)
        IN  /\ Raised(result, "InvalidLayers")
            /\ IsNone(result.value)
            /\ result.msg[1] = LayerAt(first - 1)
            /\ Reported(result.msg) =
                  FirstViolation(input.layers_data.xs[first], input.materials)

\* Two entries: the first valid, the second lacking several fields, of an
\* unknown type and with a thickness that is no number.
C2_Witness ==
    /\ Called("parse_layers")
    /\ IsList(input.layers_data)
    /\ BadPositions = {2}
    /\ Cardinality(Violations(input.layers_data.xs[2], input.materials)) >= 3
    /\ Raised(result, "InvalidLayers")
    /\ result.msg[1] = LayerAt(1)

\* The positions of the entries whose material is no key of the mapping.
UnresolvedPositions ==
    {i \in 1..Len(input.layers_data.xs) :
        /\ IsMapping(input.layers_data.xs[i])
        /\ "material" \in DOMAIN input.layers_data.xs[i].at
        /\ input.layers_data.xs[i].at["material"].s
              \notin Range(input.materials.keys)}

\* C3: with a materials mapping supplied, every layer returned names a key
\* of the mapping and an entry whose material is no key makes the call fail
\* with InvalidLayers; with None for the mapping the reference is not
\* checked and an entry is accepted whatever material it names.
C3_MaterialReference ==
    (Called("parse_layers") /\ IsList(input.layers_data)) =>
        IF ~IsNone(input.materials)
        THEN /\ Returned(result) =>
                  \A i \in 1..Len(result.value.xs) :
                      result.value.xs[i].material_name
                          \in Range(input.materials.keys)
             /\ UnresolvedPositions # {} =>
                  Raised(result, "InvalidLayers") /\ IsNone(result.value)
        ELSE (\A i \in 1..Len(input.layers_data.xs) :
                  LayerShapeValid(input.layers_data.xs[i])) =>
                 /\ Returned(result)
                 /\ \A i \in 1..Len(result.value.xs) :
                       result.value.xs[i].material_name =
                           input.layers_data.xs[i].at["material"].s

\* An empty mapping is supplied and the only entry names a material.
C3_Witness ==
    /\ Called("parse_layers")
    /\ IsList(input.layers_data)
    /\ ~IsNone(input.materials)
    /\ input.materials.keys = <<>>
    /\ Len(input.layers_data.xs) = 1
    /\ LayerShapeValid(input.layers_data.xs[1])
    /\ UnresolvedPositions = {1}
    /\ Raised(result, "InvalidLayers")

(***************************************************************************)
(* parse_materials                                                         *)
(***************************************************************************)
\* An entry supplies a field when it has the key with a value that is not
\* null.
Supplies(md, field) == field \in DOMAIN md.at /\ ~IsNone(md.at[field])

NumericInput(v) ==
    v.tag \in {"int", "float"} \/ v \in {StrV(l) : l \in NumericLiterals}

MaterialEntryValid(md) ==
    /\ IsMapping(md)
    /\ "kind" \in DOMAIN md.at
    /\ md.at["kind"] \in {StrV(k) : k \in MaterialKinds}
    /\ \A f \in {"er", "conductivity"} : Supplies(md, f) => NumericInput(md.at[f])

MaterialsValid ==
    /\ IsMapping(input.materials_data)
    /\ \A k \in Range(input.materials_data.keys) :
          MaterialEntryValid(input.materials_data.at[k])

\* C4: on a valid materials mapping parse_materials returns a mapping with
\* the same keys, each Material named by its key, of its entry's kind, with
\* er (and conductivity) None exactly when the entry does not supply it.
C4_MaterialsMirrorInput ==
    (Called("parse_materials") /\ MaterialsValid) =>
        /\ Returned(result)
        /\ IsMapping(result.value)
        /\ DOMAIN result.value.at = Range(input.materials_data.keys)
        /\ \A k \in DOMAIN result.value.at :
              LET md == input.materials_data.at[k]
                  mat == result.value.at[k]
              IN  /\ mat.name = k
                  /\ mat.kind = md.at["kind"].s
                  /\ IsNone(mat.er) <=> ~Supplies(md, "er")
                  /\ IsNone(mat.conductivity) <=> ~Supplies(md, "conductivity")

\* Two materials: one gives er and no conductivity, the other the reverse.
C4_Witness ==
    /\ Called("parse_materials")
    /\ MaterialsValid
    /\ Returned(result)
    /\ \E a, b \in DOMAIN result.value.at :
          /\ ~IsNone(result.value.at[a].er)
          /\ IsNone(result.value.at[a].conductivity)
          /\ IsNone(result.value.at[b].er)
          /\ ~IsNone(result.value.at[b].conductivity)

\* The materials section breaks one of the four rules of its shape.
MaterialsMalformed ==
    \/ ~IsMapping(input.materials_data)
    \/ \E k \in Range(input.materials_data.keys) :
          LET md == input.materials_data.at[k]
          IN  \/ ~IsMapping(md)
              \/ "kind" \notin DOMAIN md.at
              \/ md.at["kind"] \notin {StrV(x) : x \in MaterialKinds}

\* C5: parse_materials fails with InvalidMaterials, returning no mapping,
\* when the top-level value is no mapping, or some entry is no mapping, or
\* omits 'kind', or has a 'kind' other than 'dielectric' / 'copper', even
\* when every other entry is valid.
C5_MalformedMaterialsRejected ==
    (Called("parse_materials") /\ MaterialsMalformed) =>
        Raised(result, "InvalidMaterials") /\ IsNone(result.value)

\* A valid entry comes first; the second entry has a kind that is no
\* recognised tag.
C5_Witness ==
    /\ Called("parse_materials")
    /\ IsMapping(input.materials_data)
    /\ Len(input.materials_data.keys) = 2
    /\ MaterialEntryValid(input.materials_data.at[input.materials_data.keys[1]])
    /\ LET md == input.materials_data.at[input.materials_data.keys[2]]
       IN  /\ IsMapping(md)
           /\ "kind" \in DOMAIN md.at
           /\ md.at["kind"] \notin {StrV(x) : x \in MaterialKinds}
    /\ Raised(result, "InvalidMaterials")


(***************************************************************************)
(* The loaders                                                             *)
(***************************************************************************)
FileExists == call.path \in DOMAIN fs
\* The loaded document, when the file exists and is YAML.
Parses == FileExists /\ fs[call.path].wellformed
Doc == fs[call.path].data

\* The error kind each loader reports for its document.
DocumentError(op) ==
    IF op = "load_stackup" THEN "InvalidStackup" ELSE "InvalidNetList"

\* C6: each loader, given a path that does not exist, fails with its own
\* document-level error: InvalidStackup for load_stackup, InvalidNetList for
\* load_nets.
C6_MissingFileIsDocumentError ==
    (call.op \in {"load_stackup", "load_nets"} /\ ~FileExists) =>
        Raised(result, DocumentError(call.op))

\* a is a contiguous part of b
IsInfix(a, b) ==
    \E k \in 0..(Len(b) - Len(a)) : SubSeq(b, k + 1, k + Len(a)) = a

MaterialsSection == Get(Doc, "materials", EmptyDict)
LayersSection == Get(Doc, "layers", EmptyDict)

\* The document has both sections, its materials are valid, and its layers
\* are valid entries that name those materials.
WellFormedStackup ==
    /\ Parses /\ IsMapping(Doc)
    /\ {"materials", "layers"} \subseteq DOMAIN Doc.at
    /\ IsMapping(Doc.at["materials"])
    /\ \A k \in Range(Doc.at["materials"].keys) :
          MaterialEntryValid(Doc.at["materials"].at[k])
    /\ IsList(Doc.at["layers"])
    /\ \A i \in 1..Len(Doc.at["layers"].xs) :
          LayerValid(Doc.at["layers"].xs[i], Doc.at["materials"])

\* C7: load_stackup on a well-formed document returns a Stackup whose layers
\* are the parsed layers in document order, whose layers_by_name has exactly
\* the names of those layers as keys, and whose materials has exactly the
\* document's material names as keys.
C7_StackupAssembled ==
    (Called("load_stackup") /\ WellFormedStackup) =>
        /\ Returned(result)
        /\ result.value.tag = "Stackup"
        /\ result.value.layers =
              parse_layers(Doc.at["layers"],
                           parse_materials(Doc.at["materials"]).value).value.xs
        /\ DOMAIN result.value.layers_by_name =
              {result.value.layers[i].name : i \in 1..Len(result.value.layers)}
        /\ DOMAIN result.value.materials = Range(Doc.at["materials"].keys)

\* The document with section `key` set to `v`.
WithSection(key, v) ==
    [p \in DOMAIN fs |->
        IF p = call.path THEN Document(DictSet(Doc, key, v)) ELSE fs[p]]

\* C8: a document without a 'layers' key (or without a 'materials' key) that
\* is otherwise valid loads as the same document with that section present
\* and empty does: the missing section is no failure of its own.
C8_AbsentSectionIsEmpty ==
    (Called("load_stackup") /\ Parses /\ IsMapping(Doc)) =>
        /\ ("layers" \notin DOMAIN Doc.at
              /\ Returned(parse_materials(MaterialsSection))) =>
              result = load_stackup(WithSection("layers", ListV(<<>>)),
                                    call.path).r
        /\ ("materials" \notin DOMAIN Doc.at
              /\ Returned(parse_layers(LayersSection, NoneV))) =>
              result = load_stackup(WithSection("materials", EmptyDict),
                                    call.path).r

\* C9: when parse_materials raises InvalidMaterials, or parse_layers raises
\* InvalidLayers, inside load_stackup, load_stackup fails with InvalidStackup
\* and its message contains the inner message; the materials are validated
\* first, so theirs is the error reported when both sections are invalid.
C9_InnerErrorPreserved ==
    (Called("load_stackup") /\ Parses /\ IsMapping(Doc)) =>
        LET m == parse_materials(MaterialsSection)
        IN  IF Raised(m, "InvalidMaterials")
            THEN /\ Raised(result, "InvalidStackup")
                 /\ IsInfix(m.msg, result.msg)
            ELSE LET l == parse_layers(LayersSection, m.value)
                 IN  Raised(l, "InvalidLayers") =>
                        /\ Raised(result, "InvalidStackup")
                        /\ IsInfix(l.msg, result.msg)

\* Both sections are invalid: a material lacks 'kind' and a layer lacks
\* 'name'.
C9_Witness ==
    /\ Called("load_stackup") /\ Parses /\ IsMapping(Doc)
    /\ Raised(parse_materials(MaterialsSection), "InvalidMaterials")
    /\ Raised(parse_layers(LayersSection, NoneV), "InvalidLayers")
    /\ IsList(LayersSection)
    /\ Raised(result, "InvalidStackup")
    /\ \E k \in 1..Len(result.msg) :
          result.msg[k] = "' is missing required field: 'kind'."

\* C10: for both loaders, a file that is no YAML, or that loads as an empty
\* (null) document, makes the call fail with the loader's document-level
\* error; the call returns nothing in that case.
C10_UnparsableIsDocumentError ==
    (call.op \in {"load_stackup", "load_nets"} /\ FileExists
        /\ (~fs[call.path].wellformed \/ IsNone(Doc))) =>
        Raised(result, DocumentError(call.op))


(***************************************************************************)
(* load_nets on the entries of a net-list document                         *)
(***************************************************************************)
RequiredNetKeys == {"name", "layer", "role"}

\* The call is load_nets on a document whose 'nets' section is a list.
NetsLoaded ==
    /\ Called("load_nets") /\ Parses /\ IsMapping(Doc)
    /\ "nets" \in DOMAIN Doc.at
    /\ IsList(Doc.at["nets"])
NetsData == Doc.at["nets"].xs

\* What an entry gives for its enum fields, where it gives them, is valid.
GeometryGivenValid(nd) ==
    "geometry" \in DOMAIN nd.at => nd.at["geometry"] \in {StrV(g) : g \in Geometry}
RoleGivenValid(nd) ==
    "role" \in DOMAIN nd.at => nd.at["role"] \in {StrV(r) : r \in NetType}

\* C11: load_nets fails with InvalidNetList, and with no other kind of
\* exception, whenever an entry of 'nets' lacks 'name', 'layer' or 'role',
\* 'name' included.  Stated for documents with no other defect: every entry
\* is a mapping and the enum values it gives are valid.
C11_MissingNetKeyIsInvalidNetList ==
    (NetsLoaded
        /\ (\A i \in 1..Len(NetsData) :
               /\ IsMapping(NetsData[i])
               /\ GeometryGivenValid(NetsData[i])
               /\ RoleGivenValid(NetsData[i]))
        /\ (\E i \in 1..Len(NetsData) :
               ~(RequiredNetKeys \subseteq DOMAIN NetsData[i].at))) =>
        Raised(result, "InvalidNetList")

\* C12: load_nets fails with InvalidNetList whenever an entry has a
\* 'geometry' outside {auto, microstrip, stripline, cpw_ground} or a 'role'
\* outside {power, signal, diff_signal, rf}, both alike, and no other kind
\* of exception escapes.  Stated for documents with no other defect: every
\* entry is a mapping with its three required keys.
C12_UnknownEnumIsInvalidNetList ==
    (NetsLoaded
        /\ (\A i \in 1..Len(NetsData) :
               /\ IsMapping(NetsData[i])
               /\ RequiredNetKeys \subseteq DOMAIN NetsData[i].at)
        /\ (\E i \in 1..Len(NetsData) :
               ~GeometryGivenValid(NetsData[i]) \/ ~RoleGivenValid(NetsData[i]))) =>
        Raised(result, "InvalidNetList")

\* A valid entry: a mapping with string name and layer, a known role, a
\* known geometry if any, and numbers, strings and notes of the right type
\* where given.
NetEntryValid(nd) ==
    /\ IsMapping(nd)
    /\ RequiredNetKeys \subseteq DOMAIN nd.at
    /\ nd.at["name"].tag = "str" /\ nd.at["layer"].tag = "str"
    /\ RoleGivenValid(nd) /\ GeometryGivenValid(nd)
    /\ \A f \in Range(OptionalFloats) : Supplies(nd, f) => NumericInput(nd.at[f])
    /\ \A f \in Range(OptionalStrs) : Supplies(nd, f) => nd.at[f].tag = "str"
    /\ "notes" \in DOMAIN nd.at => nd.at["notes"].tag = "str"

\* C13: on a net-list document whose entries are all valid load_nets returns
\* one NetSpec per entry in document order, entries of the same name all
\* kept; the i-th carries the i-th entry's name, layer and role, has
\* geometry auto when the entry omits 'geometry', and has None for every
\* Optional field the entry omits (notes, which is no Optional field, is
\* the empty string when omitted).
C13_OneNetSpecPerEntry ==
    (NetsLoaded /\ \A i \in 1..Len(NetsData) : NetEntryValid(NetsData[i])) =>
        /\ Returned(result)
        /\ IsList(result.value)
        /\ Len(result.value.xs) = Len(NetsData)
        /\ \A i \in 1..Len(NetsData) :
              LET nd == NetsData[i]
                  net == result.value.xs[i]
              IN  /\ net["name"] = nd.at["name"]
                  /\ net["layer"] = nd.at["layer"]
                  /\ net["role"] = nd.at["role"]
                  /\ net["geometry"] =
                        IF "geometry" \in DOMAIN nd.at THEN nd.at["geometry"]
                        ELSE StrV("auto")
                  /\ \A f \in Range(OptionalFloats) \cup Range(OptionalStrs) :
                        ~Supplies(nd, f) => IsNone(net[f])
                  /\ "z0_target_ohm" \in DOMAIN nd.at =>
                        net["z0_target_ohm"] = FloatV(nd.at["z0_target_ohm"].n)
                  /\ "notes" \notin DOMAIN nd.at => net["notes"] = StrV("")

\* Two valid entries of the same name: the first omits 'geometry' and
\* 'z0_target_ohm', the second gives both.
C13_Witness ==
    /\ NetsLoaded
    /\ Len(NetsData) = 2
    /\ NetEntryValid(NetsData[1]) /\ NetEntryValid(NetsData[2])
    /\ NetsData[1].at["name"] = NetsData[2].at["name"]
    /\ "geometry" \notin DOMAIN NetsData[1].at
    /\ "z0_target_ohm" \notin DOMAIN NetsData[1].at
    /\ "geometry" \in DOMAIN NetsData[2].at
    /\ "z0_target_ohm" \in DOMAIN NetsData[2].at
    /\ Returned(result)
    /\ Len(result.value.xs) = 2
    /\ result.value.xs[1]["geometry"] = StrV("auto")
    /\ IsNone(result.value.xs[1]["z0_target_ohm"])

====
